---- MODULE Spec2Model ----
(***************************************************************************)
(* A model of manual_parallel.py: the command line of main, the per-node   *)
(* worker control_fan running in its own process, the login handshake of   *)
(* class Fans and the thread pool of Fans.change_fans.                     *)
(*                                                                         *)
(* A string is a sequence of one-character strings.  A BMC host is named   *)
(* by the node number it is configured for; a worker process is named by   *)
(* the node it controls.                                                   *)
(***************************************************************************)
EXTENDS Integers, Sequences, FiniteSets, TLC

VARIABLES
    argv,              \* sys.argv[1:], each argument a string
    net,               \* the hosts that answer at all (the rest refuse the connection)
    mainpc,            \* main's position: "start", "launch", "join", "done", "crashed"
    rate,              \* main's rate
    nodes_to_control,  \* main's nodes_to_control
    hosts_to_control,  \* main's hosts_to_control, a sequence of argument records
    processes,         \* main's processes, the workers started so far
    joined,            \* how many of processes main has joined
    proc,              \* per worker: position, failing step, arguments, challenge
    futures,           \* per worker and fan index: the state of the pool's future
    headers,           \* Fans.headers, one copy per address space
    sent,              \* every request issued, with the headers it carried
    stdout             \* every message printed

vars == <<argv, net, mainpc, rate, nodes_to_control, hosts_to_control, processes,
          joined, proc, futures, headers, sent, stdout>>

(***************************************************************************)
(* Bounds of the model.                                                    *)
(***************************************************************************)
\* the longest command-line argument drawn from Chars
MaxLen == 3
\* the number of fans of a node, the size of the pool of change_fans (main
\* passes fans = 12; the pool is modelled with fewer threads)
fans == 2

\* the characters the enumerated arguments are written with
Chars == {"0", "1", "5", "-", "x"}

Strings(k) == UNION {[1..m -> Chars] : m \in 0..k}

(***************************************************************************)
(* Strings and int().                                                      *)
(***************************************************************************)
Digits == {"0", "1", "2", "3", "4", "5", "6", "7", "8", "9"}

DigitVal(c) ==
    CASE c = "0" -> 0 [] c = "1" -> 1 [] c = "2" -> 2 [] c = "3" -> 3
      [] c = "4" -> 4 [] c = "5" -> 5 [] c = "6" -> 6 [] c = "7" -> 7
      [] c = "8" -> 8 [] c = "9" -> 9

AllDigits(s) == Len(s) > 0 /\ \A i \in 1..Len(s) : s[i] \in Digits

RECURSIVE DecVal(_)
DecVal(s) == IF s = << >> THEN 0
             ELSE 10 * DecVal(SubSeq(s, 1, Len(s) - 1)) + DigitVal(s[Len(s)])

HasSign(s) == Len(s) > 0 /\ s[1] \in {"-", "+"}

\* int(s) returns (TRUE) or raises ValueError (FALSE)
IsInt(s) == IF HasSign(s) THEN AllDigits(Tail(s)) ELSE AllDigits(s)

\* the value int(s) returns
IntVal(s) == IF HasSign(s)
             THEN (IF s[1] = "-" THEN 0 - DecVal(Tail(s)) ELSE DecVal(Tail(s)))
             ELSE DecVal(s)

\* s.split("-")
RECURSIVE Split(_)
Split(s) ==
    IF \A i \in 1..Len(s) : s[i] # "-" THEN << s >>
    ELSE LET k == CHOOSE i \in 1..Len(s) :
                      s[i] = "-" /\ \A j \in 1..(i - 1) : s[j] # "-"
         IN  << SubSeq(s, 1, k - 1) >> \o Split(SubSeq(s, k + 1, Len(s)))

\* list(range(a, b))
Range(a, b) == [i \in 1..(IF b > a THEN b - a ELSE 0) |-> a + i - 1]

ValueError == [ok |-> FALSE, val |-> << >>]
Returns(v) == [ok |-> TRUE, val |-> v]

\* parse_node_range with range(start, end) for range(start, end + 1)
parse_node_range_exclusive(node_spec) ==
    IF \E i \in 1..Len(node_spec) : node_spec[i] = "-"
    THEN LET parts == Split(node_spec)
         IN  IF Len(parts) = 2 /\ IsInt(parts[1]) /\ IsInt(parts[2])
             THEN Returns(Range(IntVal(parts[1]), IntVal(parts[2])))
             ELSE ValueError
    ELSE IF IsInt(node_spec) THEN Returns(<< IntVal(node_spec) >>) ELSE ValueError

\* start, end = map(int, parts): two parts, both integers, or ValueError
parse_node_range(node_spec) ==
    IF \E i \in 1..Len(node_spec) : node_spec[i] = "-"
    THEN LET parts == Split(node_spec)
         IN  IF Len(parts) = 2 /\ IsInt(parts[1]) /\ IsInt(parts[2])
             THEN Returns(Range(IntVal(parts[1]), IntVal(parts[2]) + 1))
             ELSE ValueError
    ELSE IF IsInt(node_spec) THEN Returns(<< IntVal(node_spec) >>) ELSE ValueError

(***************************************************************************)
(* main: the node table, the defaults and the command line.                *)
(***************************************************************************)
\* the node numbers of node_hosts
Nodes == 1..5

\* node_hosts.get(n): the host of node n, 0 for None
node_hosts(n) == IF n \in Nodes THEN n ELSE 0

\* rate = 20
DefaultRate == 20

\* nodes_to_control = list(range(1, 6))
DefaultNodes == Range(1, 6)

\* 1 <= n <= 5
ValidNode(n) == 1 <= n /\ n <= 5

Msg(m, n, i, v) == [msg |-> m, node |-> n, idx |-> i, val |-> v]

\* len(sys.argv)
Argc(av) == Len(av) + 1

\* NodesAfterArgs with the except branch emptying the list
NodesAfterArgs_empty_on_error(av) ==
    IF Argc(av) < 2 THEN Range(1, 6)
    ELSE LET r == parse_node_range(av[1])
         IN  IF r.ok THEN SelectSeq(r.val, ValidNode) ELSE << >>

\* NodesAfterArgs with an empty filtered list replaced by the default
NodesAfterArgs_default_when_empty(av) ==
    IF Argc(av) < 2 THEN Range(1, 6)
    ELSE LET r == parse_node_range(av[1])
         IN  IF r.ok /\ SelectSeq(r.val, ValidNode) # << >>
             THEN SelectSeq(r.val, ValidNode) ELSE Range(1, 6)

\* nodes_to_control after the first argument is handled
NodesAfterArgs(av) ==
    IF Argc(av) < 2 THEN DefaultNodes
    ELSE LET r == parse_node_range(av[1])
         IN  IF r.ok THEN SelectSeq(r.val, ValidNode) ELSE DefaultNodes

\* RateAfterArgs with an out-of-range rate rejected
RateAfterArgs_enforcing(av) ==
    IF Argc(av) > 2 /\ IsInt(av[2]) /\ IntVal(av[2]) >= 0 /\ IntVal(av[2]) <= 100
    THEN IntVal(av[2]) ELSE DefaultRate

\* rate after the second argument is handled
RateAfterArgs(av) ==
    IF Argc(av) > 2 /\ IsInt(av[2]) THEN IntVal(av[2]) ELSE DefaultRate

\* what the argument handling prints
ArgMessages(av) ==
    IF Argc(av) < 2 THEN {Msg("usage", 0, 0, DefaultRate)}
    ELSE LET r == parse_node_range(av[1])
         IN  (IF r.ok
              THEN {Msg("node_out_of_range", r.val[k], 0, 0) :
                        k \in {j \in 1..Len(r.val) : ~ValidNode(r.val[j])}}
              ELSE {Msg("invalid_node_spec", 0, 0, 0)})
             \cup
             (IF Argc(av) > 2
              THEN IF IsInt(av[2])
                   THEN IF IntVal(av[2]) < 0 \/ IntVal(av[2]) > 100
                        THEN {Msg("rate_out_of_range", 0, 0, IntVal(av[2]))}
                        ELSE {}
                   ELSE {Msg("invalid_rate", 0, 0, DefaultRate)}
              ELSE {})

Configured(n) == node_hosts(n) # 0

\* hosts_to_control: one argument tuple per node that has a host
HostsFor(ns, r) ==
    LET found == SelectSeq(ns, Configured)
    IN  [k \in 1..Len(found) |-> [host |-> node_hosts(found[k]), rate |-> r, fans |-> fans]]

NotFoundMessages(ns) ==
    {Msg("node_not_found", ns[k], 0, 0) : k \in {j \in 1..Len(ns) : ~Configured(ns[j])}}

Idle == [pc |-> "idle", at |-> "", rate |-> 0, random |-> 0]

\* a future: its state, how often its task issued the PUT, the duty of the
\* answer, and whether the as_completed loop has taken it
NoFuture == [st |-> "none", calls |-> 0, duty |-> 0, collected |-> FALSE]

FanIdx == 0..(fans - 1)

\* Fans.headers as the class body sets it: no Cookie (0), no X-Csrftoken (0)
ClassHeaders == [ctype |-> "json", cookie |-> 0, csrf |-> 0]

\* lines 109-172: defaults, argument handling, the host list
MainStart ==
    /\ mainpc = "start"
    /\ rate' = RateAfterArgs(argv)
    /\ nodes_to_control' = NodesAfterArgs(argv)
    /\ hosts_to_control' = HostsFor(nodes_to_control', rate')
    /\ stdout' = stdout \cup ArgMessages(argv)
                        \cup {Msg("setting", 0, 0, rate')}
                        \cup NotFoundMessages(nodes_to_control')
    /\ mainpc' = IF Len(hosts_to_control') = 0 THEN "join" ELSE "launch"
    /\ UNCHANGED <<argv, net, processes, joined, proc, futures, headers, sent>>

\* lines 177-180: p = Process(target=control_fan, args=args); p.start()
MainLaunch ==
    /\ mainpc = "launch"
    /\ LET args == hosts_to_control[Len(processes) + 1]
           p == args.host
       IN  /\ processes' = Append(processes, p)
           /\ proc' = [proc EXCEPT ![p] = [pc |-> "get_random", at |-> "",
                                           rate |-> args.rate, random |-> 0]]
           /\ mainpc' = IF Len(processes') = Len(hosts_to_control)
                        THEN "join" ELSE "launch"
    /\ UNCHANGED <<argv, net, rate, nodes_to_control, hosts_to_control, joined,
                   futures, headers, sent, stdout>>

Terminated(p) == proc[p].pc \in {"done", "crashed"}

\* join that does not wait
join_returns_at_once(p) == TRUE

\* p.join() returns once the process has ended
join_returns(p) == Terminated(p)

\* p.join() raises nothing, whatever the exit code of the process
join_raises(p) == FALSE

\* lines 183-184: for p in processes: p.join()
MainJoin ==
    /\ mainpc = "join"
    /\ joined < Len(processes)
    /\ join_returns(processes[joined + 1])
    /\ IF join_raises(processes[joined + 1])
       THEN mainpc' = "crashed" /\ joined' = joined
       ELSE mainpc' = "join" /\ joined' = joined + 1
    /\ UNCHANGED <<argv, net, rate, nodes_to_control, hosts_to_control, processes,
                   proc, futures, headers, sent, stdout>>

\* line 186
MainDone ==
    /\ mainpc = "join"
    /\ joined = Len(processes)
    /\ stdout' = stdout \cup {Msg("all_completed", 0, 0, 0)}
    /\ mainpc' = "done"
    /\ UNCHANGED <<argv, net, rate, nodes_to_control, hosts_to_control, processes,
                   joined, proc, futures, headers, sent>>

(***************************************************************************)
(* The BMC hosts: what a request can be answered with.                     *)
(***************************************************************************)
\* the login tag a host hands out, its session id and its CSRF token
Challenge(h) == h
SessionId(h) == h
CsrfToken(h) == h

\* GET /api/randomtag: no connection, a body without "random", the tag
RandomResponses == {"neterr", "nofield", "ok"}

\* POST /api/session: no connection, no matching Set-Cookie, no "CSRFToken", both
SessionResponses == {"neterr", "nocookie", "nocsrf", "ok"}

\* PUT /api/settings/fans-mode: no connection, or any HTTP answer
ModeResponses == {"neterr", "ok", "rejected"}

Clamp(d) == IF d < 0 THEN 0 ELSE IF d > 100 THEN 100 ELSE d

\* PUT /api/settings/fan/i with duty d: no connection, a body without "duty",
\* or the duty the controller applied
DutyResponses(d) ==
    {[kind |-> "neterr", duty |-> 0], [kind |-> "nofield", duty |-> 0]}
    \cup {[kind |-> "ok", duty |-> v] : v \in {d, Clamp(d)}}

\* a host outside net refuses every connection
Answers(h, R, refused) == IF h \in net THEN R ELSE {refused}

(***************************************************************************)
(* The worker process control_fan(host, ...) and class Fans.               *)
(***************************************************************************)
\* workers as threads of one process: one Fans.headers for all
SharedHeaderOwner(p) == 1

\* the address space whose Fans.headers worker p reads and writes: each
\* multiprocessing.Process has its own copy of the class attribute
HeaderOwner(p) == p

Hdr(p) == headers[HeaderOwner(p)]

\* a request as issued: who sent it, the headers and the data it carried, and
\* whether the call raised in the caller
Req(p, method, path, i, h, data, raised) ==
    [node |-> p, method |-> method, path |-> path, idx |-> i,
     ctype |-> h.ctype, cookie |-> h.cookie, csrf |-> h.csrf, data |-> data,
     raised |-> raised]

\* a failing worker taking the workers still running down with it
CrashGroup(p, step) ==
    [q \in Nodes |-> IF q = p \/ proc[q].pc \notin {"idle", "done", "crashed"}
                     THEN [proc[q] EXCEPT !.pc = "crashed", !.at = step]
                     ELSE proc[q]]

\* an exception nobody catches ends the process that raised it
Crash(p, step) == [proc EXCEPT ![p].pc = "crashed", ![p].at = step]

\* res.json()["random"] raises unless the tag is there
random_raises(resp) == resp # "ok"

\* lines 22-25 and 79
get_random(p) ==
    /\ proc[p].pc = "get_random"
    /\ \E resp \in Answers(p, RandomResponses, "neterr") :
         /\ sent' = sent \cup {Req(p, "GET", "randomtag", 0, Hdr(p), 0,
                                  random_raises(resp))}
         /\ proc' = IF random_raises(resp) THEN Crash(p, "get_random")
                    ELSE [proc EXCEPT ![p].pc = "get_session",
                                      ![p].random = Challenge(p)]
    /\ UNCHANGED <<argv, net, mainpc, rate, nodes_to_control, hosts_to_control,
                   processes, joined, futures, headers, stdout>>

\* get_session reading the answer with .get(): only the transport raises
session_raises_transport_only(resp) == resp = "neterr"

\* line 37 raises without a matching Set-Cookie, line 38 without "CSRFToken"
session_raises(resp) == resp # "ok"

\* lines 38-41: what the answer leaves in the headers
StoreSession(h, resp, host) ==
    [ctype |-> "json",
     cookie |-> IF resp \in {"ok", "nocsrf"} THEN SessionId(host) ELSE h.cookie,
     csrf |-> IF resp \in {"ok", "nocookie"} THEN CsrfToken(host) ELSE h.csrf]

\* lines 27-41 and 80; the POST carries the headers as line 29 left them
get_session(p) ==
    /\ proc[p].pc = "get_session"
    /\ \E resp \in Answers(p, SessionResponses, "neterr") :
         LET h == [Hdr(p) EXCEPT !.ctype = "form"]
         IN  /\ sent' = sent \cup {Req(p, "POST", "session", 0, h, proc[p].random,
                                      session_raises(resp))}
             /\ IF session_raises(resp)
                THEN /\ headers' = [headers EXCEPT ![HeaderOwner(p)] = h]
                     /\ proc' = Crash(p, "get_session")
                ELSE /\ headers' = [headers EXCEPT ![HeaderOwner(p)] =
                                        StoreSession(h, resp, p)]
                     /\ proc' = [proc EXCEPT ![p].pc = "fans_mode"]
    /\ UNCHANGED <<argv, net, mainpc, rate, nodes_to_control, hosts_to_control,
                   processes, joined, futures, stdout>>

\* requests.put raises on a transport failure only; any answer is printed
mode_raises(resp) == resp = "neterr"

\* lines 51-56 and 82
fans_mode(p) ==
    /\ proc[p].pc = "fans_mode"
    /\ \E resp \in Answers(p, ModeResponses, "neterr") :
         /\ sent' = sent \cup {Req(p, "PUT", "fans-mode", 0, Hdr(p), 0,
                                  mode_raises(resp))}
         /\ IF mode_raises(resp)
            THEN /\ proc' = Crash(p, "fans_mode")
                 /\ stdout' = stdout
            ELSE /\ proc' = [proc EXCEPT ![p].pc = "change_fans"]
                 /\ stdout' = stdout \cup {Msg("response", p, 0, 0)}
    /\ UNCHANGED <<argv, net, mainpc, rate, nodes_to_control, hosts_to_control,
                   processes, joined, futures, headers>>

\* lines 68-69: the pool has one thread per fan, every task starts
change_fans(p) ==
    /\ proc[p].pc = "change_fans"
    /\ futures' = [futures EXCEPT ![p] =
                      [i \in FanIdx |-> [st |-> "running", calls |-> 0, duty |-> 0,
                                          collected |-> FALSE]]]
    /\ proc' = [proc EXCEPT ![p].pc = "as_completed"]
    /\ UNCHANGED <<argv, net, mainpc, rate, nodes_to_control, hosts_to_control,
                   processes, joined, headers, sent, stdout>>

\* requests.put or response.json()['duty'] raises
duty_raises(r) == r.kind # "ok"

\* the report printing the duty asked for
reported_requested(d, r) == d

\* line 64 prints response.json()['duty']
reported_duty(d, r) == r.duty

\* lines 59-65, one pool thread; duty in the future is the duty of the answer
change_single_fan(p, i) ==
    /\ futures[p][i].st = "running"
    /\ \E r \in Answers(p, DutyResponses(proc[p].rate),
                        [kind |-> "neterr", duty |-> 0]) :
         /\ sent' = sent \cup {Req(p, "PUT", "fan", i, Hdr(p), proc[p].rate,
                                  duty_raises(r))}
         /\ IF duty_raises(r)
            THEN /\ futures' = [futures EXCEPT ![p][i].st = "err",
                                               ![p][i].calls = @ + 1]
                 /\ stdout' = stdout
            ELSE /\ futures' = [futures EXCEPT ![p][i].st = "ok",
                                               ![p][i].calls = @ + 1,
                                               ![p][i].duty = r.duty]
                 /\ stdout' = stdout \cup
                        {Msg("fan_changed", p, i, reported_duty(proc[p].rate, r))}
    /\ UNCHANGED <<argv, net, mainpc, rate, nodes_to_control, hosts_to_control,
                   processes, joined, proc, headers>>

\* future.result() outside a try
fan_error_uncaught == FALSE

\* except Exception: every exception a fan task raised is caught
fan_error_caught == TRUE

\* lines 70-74, one turn of the loop; the error message is kept per fan index
as_completed(p, i) ==
    /\ proc[p].pc = "as_completed"
    /\ futures[p][i].st \in {"ok", "err"}
    /\ ~futures[p][i].collected
    /\ futures' = [futures EXCEPT ![p][i].collected = TRUE]
    /\ IF futures[p][i].st = "err"
       THEN IF fan_error_caught
            THEN /\ stdout' = stdout \cup {Msg("fan_error", p, i, 0)}
                 /\ proc' = proc
            ELSE /\ stdout' = stdout
                 /\ proc' = Crash(p, "change_fans")
       ELSE /\ stdout' = stdout
            /\ proc' = proc
    /\ UNCHANGED <<argv, net, mainpc, rate, nodes_to_control, hosts_to_control,
                   processes, joined, headers, sent>>

\* change_fans returns; line 84
control_fan_done(p) ==
    /\ proc[p].pc = "as_completed"
    /\ \A i \in FanIdx : futures[p][i].collected
    /\ stdout' = stdout \cup {Msg("completed", p, 0, 0)}
    /\ proc' = [proc EXCEPT ![p].pc = "done"]
    /\ UNCHANGED <<argv, net, mainpc, rate, nodes_to_control, hosts_to_control,
                   processes, joined, futures, headers, sent>>

(***************************************************************************)
(* Specifications.                                                         *)
(***************************************************************************)
\* the command lines of Spec: at most two workers, every host answering
SpecArgs == { << <<"4", "-", "5">> >>,
              << <<"4", "-", "5">>, <<"1", "5", "0">> >>,
              << <<"3">>, <<"3", "0">> >>,
              << <<"5", "-", "4">> >> }

\* the command lines of SpecCli: none, every node argument, every rate argument
NodeArgs == {<< >>} \cup {<< s >> : s \in Strings(MaxLen)}
RateArgs == {<< <<"1">>, s >> : s \in Strings(MaxLen)}

InitWith(A, N) ==
    /\ argv \in A
    /\ net = N
    /\ mainpc = "start"
    /\ rate = DefaultRate
    /\ nodes_to_control = DefaultNodes
    /\ hosts_to_control = << >>
    /\ processes = << >>
    /\ joined = 0
    /\ proc = [n \in Nodes |-> Idle]
    /\ futures = [n \in Nodes |-> [i \in FanIdx |-> NoFuture]]
    /\ headers = [n \in Nodes |-> ClassHeaders]
    /\ sent = {}
    /\ stdout = {}

Init == InitWith(SpecArgs, Nodes)

InitCli == InitWith(NodeArgs, {}) \/ InitWith(RateArgs, {1})

Worker(p) ==
    \/ get_random(p)
    \/ get_session(p)
    \/ fans_mode(p)
    \/ change_fans(p)
    \/ \E i \in FanIdx : change_single_fan(p, i)
    \/ \E i \in FanIdx : as_completed(p, i)
    \/ control_fan_done(p)

Main == MainStart \/ MainLaunch \/ MainJoin \/ MainDone

Next == Main \/ \E p \in Nodes : Worker(p)

Spec == Init /\ [][Next]_vars

SpecCli == InitCli /\ [][Next]_vars

(***************************************************************************)
(* The properties.                                                         *)
(***************************************************************************)
ReqsOf(p, path) == {r \in sent : r.node = p /\ r.path = path}

Failed(p, path) == \E r \in ReqsOf(p, path) : r.raised

Running(p) == proc[p].pc \notin {"idle", "done", "crashed"}

Launched == {processes[k] : k \in 1..Len(processes)}

Completed(p) == Msg("completed", p, 0, 0) \in stdout

AllCompleted == Msg("all_completed", 0, 0, 0) \in stdout

\* C1: a worker issues its requests in the order challenge GET, session POST,
\* mode PUT, fan-duty PUTs: a request of a step is in flight only when the step
\* before it has returned (the challenge is held, the cookie and CSRF token are
\* stored, the mode answer is printed), every fan-duty PUT carries the stored
\* cookie and token, and once the challenge, the login or the mode call has
\* raised, the worker has issued no request of a later step and has not
\* printed its completion message.
C1_RequestOrder ==
    \A p \in Nodes :
        /\ ReqsOf(p, "session") # {} =>
               /\ ReqsOf(p, "randomtag") # {}
               /\ proc[p].random = Challenge(p)
               /\ \A r \in ReqsOf(p, "session") : r.data = Challenge(p)
        /\ ReqsOf(p, "fans-mode") # {} =>
               /\ ReqsOf(p, "session") # {}
               /\ headers[p].cookie = SessionId(p)
               /\ headers[p].csrf = CsrfToken(p)
        /\ ReqsOf(p, "fan") # {} =>
               /\ ReqsOf(p, "fans-mode") # {}
               /\ Msg("response", p, 0, 0) \in stdout
               /\ \A r \in ReqsOf(p, "fan") :
                      r.cookie = SessionId(p) /\ r.csrf = CsrfToken(p)
        /\ Failed(p, "randomtag") =>
               ReqsOf(p, "session") \cup ReqsOf(p, "fans-mode") \cup ReqsOf(p, "fan") = {}
        /\ Failed(p, "session") => ReqsOf(p, "fans-mode") \cup ReqsOf(p, "fan") = {}
        /\ Failed(p, "fans-mode") => ReqsOf(p, "fan") = {}
        /\ (Failed(p, "randomtag") \/ Failed(p, "session") \/ Failed(p, "fans-mode")) =>
               ~Completed(p) /\ proc[p].pc = "crashed"

\* one worker has been through all four steps, another stopped at the mode call
C1_Witness ==
    \E p, q \in Nodes :
        /\ Completed(p)
        /\ \A i \in FanIdx : \E r \in ReqsOf(p, "fan") : r.idx = i
        /\ Failed(q, "fans-mode")
        /\ proc[q].pc = "crashed"

\* C2: in change_fans every fan index is tried exactly once whatever the set
\* of failing indices is: no call is repeated, no failure ends the worker, the
\* worker can always go on, and when change_fans has returned every index has
\* been tried once, every call that did not fail is reported, every failure is
\* logged and the completion message of the node is printed.
C2_FanFailuresContained ==
    \A p \in Nodes :
        /\ \A i \in FanIdx : futures[p][i].calls <= 1
        /\ proc[p].at # "change_fans"
        /\ proc[p].pc = "as_completed" => ENABLED Worker(p)
        /\ proc[p].pc = "done" =>
               /\ Completed(p)
               /\ \A i \in FanIdx :
                      /\ futures[p][i].calls = 1
                      /\ futures[p][i].collected
                      /\ futures[p][i].st \in {"ok", "err"}
                      /\ futures[p][i].st = "ok" =>
                             \E m \in stdout : m.msg = "fan_changed" /\ m.node = p /\ m.idx = i
                      /\ futures[p][i].st = "err" =>
                             Msg("fan_error", p, i, 0) \in stdout
        /\ Completed(p) <=> proc[p].pc = "done"

\* a worker has completed with one fan call failed and another one reported
C2_Witness ==
    \E p \in Nodes : \E i, j \in FanIdx :
        /\ proc[p].pc = "done"
        /\ Completed(p)
        /\ futures[p][i].st = "err"
        /\ futures[p][j].st = "ok"

\* C3: a failure stays in the worker it happened in: a worker has crashed only
\* at a step where a request of its own raised, a worker none of whose
\* challenge, login and mode requests raised is never crashed, can always go
\* on while it runs and ends with its completion message, and main never
\* fails: no failure of a worker is raised in it.
C3_FailureIsolation ==
    /\ mainpc # "crashed"
    /\ \A p \in Nodes :
        /\ proc[p].pc = "crashed" =>
               \/ proc[p].at = "get_random" /\ Failed(p, "randomtag")
               \/ proc[p].at = "get_session" /\ Failed(p, "session")
               \/ proc[p].at = "fans_mode" /\ Failed(p, "fans-mode")
        /\ Running(p) => ENABLED Worker(p)
        /\ (Terminated(p) /\ ~Failed(p, "randomtag") /\ ~Failed(p, "session")
                          /\ ~Failed(p, "fans-mode")) => Completed(p)

\* one worker crashed at its login, another ran to its completion message and
\* main reported the end
C3_Witness ==
    \E p, q \in Nodes :
        /\ proc[p].pc = "crashed" /\ proc[p].at = "get_session"
        /\ Completed(q)
        /\ AllCompleted

\* C4: every request of a worker carries the headers of that worker's own
\* handshake only: its cookie and its CSRF token are absent or the ones its
\* own host issued, every PUT carries both and the JSON content type.
C4_SessionIsolation ==
    \A r \in sent :
        /\ r.cookie \in {0, SessionId(r.node)}
        /\ r.csrf \in {0, CsrfToken(r.node)}
        /\ r.method = "GET" => r.cookie = 0 /\ r.csrf = 0 /\ r.ctype = "json"
        /\ r.method = "POST" => r.cookie = 0 /\ r.csrf = 0 /\ r.ctype = "form"
        /\ r.method = "PUT" =>
               /\ r.cookie = SessionId(r.node)
               /\ r.csrf = CsrfToken(r.node)
               /\ r.ctype = "json"

\* two workers have both logged in and both sent fan-duty PUTs
C4_Witness ==
    \E p, q \in Nodes :
        /\ p # q
        /\ ReqsOf(p, "fan") # {}
        /\ ReqsOf(q, "fan") # {}
        /\ headers[p].cookie = SessionId(p)
        /\ headers[q].cookie = SessionId(q)

\* C5: main starts one worker per node of the control set, in its order; the
\* final message is printed only when every started worker has ended; main
\* can always go on once the worker it waits for has ended, whether that
\* worker completed or crashed, and it prints the message when all have ended.
C5_BlanketCompletion ==
    /\ Len(processes) <= Len(nodes_to_control)
    /\ \A k \in 1..Len(processes) : processes[k] = nodes_to_control[k]
    /\ \A k, l \in 1..Len(processes) : processes[k] = processes[l] => k = l
    /\ \A p \in Nodes : proc[p].pc # "idle" <=> p \in Launched
    /\ mainpc \in {"join", "done"} => Len(processes) = Len(nodes_to_control)
    /\ AllCompleted <=> mainpc = "done"
    /\ AllCompleted => \A p \in Launched : Terminated(p)
    /\ \A k \in 1..joined : Terminated(processes[k])
    /\ (mainpc = "join" /\ \A p \in Launched : Terminated(p)) => ENABLED Main

\* the final message is printed after one worker completed and one crashed
C5_Witness ==
    \E p, q \in Launched :
        /\ AllCompleted
        /\ proc[p].pc = "done"
        /\ proc[q].pc = "crashed"

(***************************************************************************)
(* The command line, as the properties read it.                            *)
(***************************************************************************)
Dashes(s) == {i \in 1..Len(s) : s[i] = "-"}

\* "a": decimal digits
IsSingle(s) == Dashes(s) = {} /\ AllDigits(s)

\* "a-b": decimal digits, one dash, decimal digits
IsPair(s) ==
    \E k \in Dashes(s) :
        /\ Dashes(s) = {k}
        /\ AllDigits(SubSeq(s, 1, k - 1))
        /\ AllDigits(SubSeq(s, k + 1, Len(s)))

WellFormed(s) == IsSingle(s) \/ IsPair(s)

\* a of "a" and of "a-b"
LowOf(s) == IF IsSingle(s) THEN DecVal(s)
            ELSE DecVal(SubSeq(s, 1, (CHOOSE k \in Dashes(s) : TRUE) - 1))

\* a of "a", b of "a-b"
HighOf(s) == IF IsSingle(s) THEN DecVal(s)
             ELSE DecVal(SubSeq(s, (CHOOSE k \in Dashes(s) : TRUE) + 1, Len(s)))

\* the list a, a+1, ..., b
Ascending(a, b) == [i \in 1..(IF b >= a THEN b - a + 1 ELSE 0) |-> a + i - 1]

\* an integer as int() reads it: digits, a sign before them allowed
IntegerText(s) ==
    \/ AllDigits(s)
    \/ Len(s) > 1 /\ s[1] \in {"-", "+"} /\ AllDigits(Tail(s))

Parsed == mainpc # "start"

HasNodeArg == Len(argv) >= 1

HasRateArg == Len(argv) >= 2

\* C6: for a node argument "a" or "a-b" written with decimal digits,
\* parse_node_range returns [a], or the ascending list a..b, and the control
\* set of main is that list without the ids outside 1..5: it holds exactly the
\* ids of a..b that lie in 1..5, each once, in ascending order.  (A signed
\* number is no such argument: its dash makes an empty part, the case of C7.)
C6_ControlSet ==
    (HasNodeArg /\ WellFormed(argv[1])) =>
        LET a == LowOf(argv[1])
            b == HighOf(argv[1])
        IN  /\ parse_node_range(argv[1]) = [ok |-> TRUE, val |-> Ascending(a, b)]
            /\ Parsed =>
                 /\ \A k \in 1..Len(nodes_to_control) :
                        /\ nodes_to_control[k] \in a..b
                        /\ nodes_to_control[k] \in 1..5
                 /\ \A n \in (a..b) \cap (1..5) :
                        \E k \in 1..Len(nodes_to_control) : nodes_to_control[k] = n
                 /\ \A k, l \in 1..Len(nodes_to_control) :
                        k < l => nodes_to_control[k] < nodes_to_control[l]

\* the argument 0-5 has been handled: 0 is dropped, 1..5 are kept in order
C6_Witness ==
    /\ Parsed
    /\ argv = << <<"0", "-", "5">> >>
    /\ nodes_to_control = <<1, 2, 3, 4, 5>>

\* C7: with no argument, or with a node argument that is no "a" and no "a-b"
\* (a part that is no integer, an empty part, more than two parts),
\* parse_node_range raises ValueError where it is called, the control set is
\* 1, 2, 3, 4, 5, and main goes on: it starts a worker for each of the five.
C7_InvalidSpecDefaults ==
    /\ (HasNodeArg /\ ~WellFormed(argv[1])) => ~parse_node_range(argv[1]).ok
    /\ (Parsed /\ (~HasNodeArg \/ ~WellFormed(argv[1]))) =>
        /\ nodes_to_control = <<1, 2, 3, 4, 5>>
        /\ Len(hosts_to_control) = 5
        /\ HasNodeArg => Msg("invalid_node_spec", 0, 0, 0) \in stdout
        /\ mainpc \in {"launch", "join", "done"}
        /\ mainpc = "launch" => ENABLED MainLaunch
        /\ mainpc \in {"join", "done"} => processes = <<1, 2, 3, 4, 5>>

\* the argument -5 has been handled and five workers have been started
C7_Witness ==
    /\ argv = << <<"-", "5">> >>
    /\ processes = <<1, 2, 3, 4, 5>>
    /\ \A p \in Nodes : proc[p].pc # "idle"

\* C8: a rate argument that is no integer leaves the rate at 20 and is warned
\* about; an integer is taken as it is, with a warning exactly when it is
\* outside 0..100; and this rate is the one in every worker's arguments and in
\* every fan-duty PUT.
C8_RateArgument ==
    Parsed =>
        /\ ~HasRateArg => rate = 20
        /\ (HasRateArg /\ ~IntegerText(argv[2])) =>
               /\ rate = 20
               /\ Msg("invalid_rate", 0, 0, 20) \in stdout
        /\ (HasRateArg /\ IntegerText(argv[2])) =>
               /\ rate = IntVal(argv[2])
               /\ (rate < 0 \/ rate > 100) <=>
                      Msg("rate_out_of_range", 0, 0, rate) \in stdout
               /\ Msg("invalid_rate", 0, 0, 20) \notin stdout
        /\ \A k \in 1..Len(hosts_to_control) : hosts_to_control[k].rate = rate
        /\ \A p \in Launched : proc[p].rate = rate
        /\ \A r \in sent : r.path = "fan" => r.data = rate

\* the rate 150 has been warned about and sent in a fan-duty PUT
C8_Witness ==
    /\ HasRateArg
    /\ argv[2] = <<"1", "5", "0">>
    /\ Msg("rate_out_of_range", 0, 0, 150) \in stdout
    /\ \E r \in sent : r.path = "fan" /\ r.data = 150

\* C9 as stated: every report of a fan-duty call shows the duty asked for.
C9_ReportEchoesRequest ==
    \A m \in stdout : m.msg = "fan_changed" => m.val = proc[m.node].rate

\* C9 as amended: the PUT for fan i carries the duty asked for, and the report
\* for fan i shows the duty of the answer to that PUT, whatever was asked for:
\* each answered call is reported once, with the duty the controller returned.
C9_ReportShowsAnswer ==
    /\ \A m \in stdout : m.msg = "fan_changed" =>
           /\ futures[m.node][m.idx].st = "ok"
           /\ m.val = futures[m.node][m.idx].duty
           /\ \E r \in ReqsOf(m.node, "fan") :
                  /\ r.idx = m.idx
                  /\ r.data = proc[m.node].rate
                  /\ r.cookie = SessionId(m.node)
    /\ \A p \in Nodes : \A i \in FanIdx :
           futures[p][i].st = "ok" =>
               Msg("fan_changed", p, i, futures[p][i].duty) \in stdout

\* one node has a report with the duty asked for and one with another duty
C9_Witness ==
    \E m1, m2 \in stdout :
        /\ m1.msg = "fan_changed" /\ m2.msg = "fan_changed"
        /\ m1.node = m2.node
        /\ m1.val = proc[m1.node].rate
        /\ m2.val # proc[m2.node].rate

\* C10: when the node argument is an "a" or "a-b" none of whose ids lies in
\* 1..5 (a > b, or all of a..b outside 1..5), the control set is empty and not
\* the default: no worker is started, no request is sent, and main goes on to
\* print the final message.
C10_EmptyControlSet ==
    (Parsed /\ HasNodeArg /\ WellFormed(argv[1])
            /\ (LowOf(argv[1])..HighOf(argv[1])) \cap (1..5) = {}) =>
        /\ nodes_to_control = << >>
        /\ hosts_to_control = << >>
        /\ processes = << >>
        /\ \A p \in Nodes : proc[p].pc = "idle"
        /\ sent = {}
        /\ mainpc \in {"join", "done"}
        /\ mainpc = "join" => ENABLED MainDone
        /\ mainpc = "done" => AllCompleted

\* the argument 5-1 has been handled and the final message printed
C10_Witness ==
    /\ argv = << <<"5", "-", "1">> >>
    /\ nodes_to_control = << >>
    /\ AllCompleted
    /\ sent = {}
====
